---- MODULE Spec2Model ----
(***************************************************************************)
(* A model of datastore_loader.py: the driver at the end of the module,    *)
(* parse_resource (the schema resolver), upload_resource_records (the      *)
(* upload pipeline) and ckan (the action call).                            *)
(*                                                                         *)
(* Strings the code takes apart (header names, cell values) are sequences  *)
(* of characters; a character is a one-element string, or "U+xxxx" for a   *)
(* character outside ASCII.  A dict key that may be missing is a set: {}   *)
(* when the key is absent, {v} when it holds v.                            *)
(*                                                                         *)
(* parse_resource starts from the schema literal of line 125, which the    *)
(* data owner edits to override what is detected (lines 122-124).  The     *)
(* model takes the value of that literal as an input; the value as         *)
(* shipped is EmptySchema.                                                 *)
(***************************************************************************)
EXTENDS Integers, Sequences, FiniteSets, TLC

VARIABLES
    pc,         \* where the program is
    mode,       \* "all" when args.resource_id is None, "single" otherwise
    packages,   \* the result of package_list
    pkgIdx,     \* the driver loop's position in packages
    resource,   \* the resource being processed
    schema,     \* parse_resource's schema mapping
    headers,    \* parse_resource's header list
    table,      \* the table messytables made of the payload
    pos,        \* rows the upload has taken from recorditer
    rownum,     \* upload_resource_records' row counter
    calls,      \* the remote action calls issued so far, in order
    streams,    \* byte streams opened by urlopen(resource["url"]) and not closed
    raised,     \* the exception that ended the current resource, {} when none
    logged,     \* what log.error has written
    processed,  \* ids of the resources upload_resource_to_datastore was called for
    supplied    \* the schema as it was before parse_resource filled it in

vars == <<pc, mode, packages, pkgIdx, resource, schema, headers, table, pos,
          rownum, calls, streams, raised, logged, processed, supplied>>

(***************************************************************************)
(* Characters and strings                                                  *)
(***************************************************************************)

Min(a, b) == IF a < b THEN a ELSE b

LowerLetters == {"a", "b", "c", "e", "f", "h", "i", "m", "n", "o", "s", "t", "u", "x", "y", "z"}

Digits == {"0", "1", "2", "3", "4", "5", "6", "7", "8", "9"}

\* unicode.lower() on one character
LowerChar(c) ==
    CASE c = "A" -> "a"
      [] c = "B" -> "b"
      [] c = "H" -> "h"
      [] c = "U+00C9" -> "U+00E9"      \* E with acute -> e with acute
      [] OTHER -> c

\* what unicode.strip() removes at both ends
IsSpace(c) == c \in {" ", "\t", "U+00A0"}

\* unicodedata.normalize('NFKD', c) of one character
NFKD(c) ==
    CASE c = "U+00E9" -> <<"e", "U+0301">>     \* e + combining acute
      [] c = "U+00C9" -> <<"E", "U+0301">>
      [] c = "U+00F1" -> <<"n", "U+0303">>     \* n + combining tilde
      [] c = "U+210B" -> <<"H">>               \* script capital H
      [] c = "U+FB01" -> <<"f", "i">>          \* ligature fi
      [] c = "U+00A0" -> <<" ">>               \* no-break space
      [] OTHER -> <<c>>

\* the characters with unicodedata.combining(c) != 0
CombiningMarks == {"U+0301", "U+0303"}

RECURSIVE Flatten(_)
Flatten(ss) == IF ss = <<>> THEN <<>> ELSE Head(ss) \o Flatten(Tail(ss))

\* the characters of s that are in the set keep, in order
RECURSIVE Filter(_, _)
Filter(s, keep) ==
    IF s = <<>> THEN <<>>
    ELSE (IF Head(s) \in keep THEN <<Head(s)>> ELSE <<>>) \o Filter(Tail(s), keep)

Lower(s) == [i \in 1..Len(s) |-> LowerChar(s[i])]

RECURSIVE LStrip(_)
LStrip(s) == IF s # <<>> /\ IsSpace(Head(s)) THEN LStrip(Tail(s)) ELSE s

RECURSIVE RStrip(_)
RStrip(s) ==
    IF s # <<>> /\ IsSpace(s[Len(s)]) THEN RStrip(SubSeq(s, 1, Len(s) - 1)) ELSE s

Strip(s) == RStrip(LStrip(s))

\* re.match("^[a-z_]", header)
ValidFirst(s) == s # <<>> /\ (s[1] \in LowerLetters \/ s[1] = "_")

\* the characters re.sub("[^a-z0-9_]", "", header) keeps
ValidChars == LowerLetters \cup Digits \cup {"_"}

\* ^[a-z_][a-z0-9_]*$
IsIdentifier(s) == ValidFirst(s) /\ \A i \in 1..Len(s) : s[i] \in ValidChars

(***************************************************************************)
(* Header normalization, parse_resource lines 268-299                      *)
(***************************************************************************)

\* line 280: NFKD-decompose and drop the combining marks
ToAscii(h) ==
    LET d == Flatten([i \in 1..Len(h) |-> NFKD(h[i])])
    IN  Filter(d, {d[i] : i \in 1..Len(d)} \ CombiningMarks)

PrefixNever(h) == h

\* lines 284-285: an invalid first character gets an underscore in front
PrefixUnderscore(h) == IF ~ValidFirst(h) THEN <<"_">> \o h ELSE h

\* line 288: drop every character that is not allowed
DropInvalid(h) == Filter(h, ValidChars)

\* the loop body of lines 276-291 for one header
SqlName(h) == DropInvalid(PrefixUnderscore(ToAscii(h)))

\* lines 271-291 for the whole list
NormalizeHeaders(hs) == [i \in 1..Len(hs) |-> SqlName(Strip(Lower(hs[i])))]

MaxNameLength == 24

DigitChars == <<"0", "1", "2", "3", "4", "5", "6", "7", "8", "9">>

RECURSIVE Decimal(_)
Decimal(k) ==
    IF k < 10 THEN <<DigitChars[k + 1]>>
    ELSE Decimal(k \div 10) \o <<DigitChars[(k % 10) + 1]>>

Truncate(h, n) == SubSeq(h, 1, Min(Len(h), n))

InSeq(x, s) == \E i \in 1..Len(s) : s[i] = x

\* h cut so that the counter k fits under the cap, with k appended
Suffixed(h, k, cap) == Truncate(h, cap - Len(Decimal(k))) \o Decimal(k)

\* messytables' headers_make_unique(headers, max_length): left to right, a
\* name is cut to the cap; one that collides with a name already given takes
\* the first counter that makes it new, still under the cap
RECURSIVE MakeUniqueFrom(_, _, _)
MakeUniqueFrom(todo, given, cap) ==
    IF todo = <<>> THEN given
    ELSE LET h == Truncate(Head(todo), cap)
             k == CHOOSE k \in 1..(Len(given) + 1) :
                      /\ ~InSeq(Suffixed(h, k, cap), given)
                      /\ \A j \in 1..(k - 1) : InSeq(Suffixed(h, j, cap), given)
             name == IF InSeq(h, given) THEN Suffixed(h, k, cap) ELSE h
         IN  MakeUniqueFrom(Tail(todo), Append(given, name), cap)

headers_make_unique(hs, cap) == MakeUniqueFrom(hs, <<>>, cap)

\* lines 271-299: the names written into schema.columns[i].name
ColumnNames(hs) == headers_make_unique(NormalizeHeaders(hs), MaxNameLength)

(***************************************************************************)
(* The schema mapping and its nested get/set, parse_resource lines 122-155 *)
(***************************************************************************)

\* the schema literal of line 125: no key is set
EmptySchema ==
    [format    |-> [name |-> {}, delimiter |-> {}, quotechar |-> {}, encoding |-> {}],
     container |-> [name |-> {}],
     header    |-> [present |-> {}, offset |-> {}],
     columns   |-> [i \in {} |-> [name |-> {}, type |-> {}]]]

\* schema_get(..., default=d) on a key that holds opt
schema_get(opt, d) == IF opt = {} THEN d ELSE CHOOSE v \in opt : TRUE

\* an exception, with the values its message is formatted from
Exception(class, what, info) == [class |-> class, what |-> what, info |-> info]

UserError(what, info) == Exception("UserError", what, info)

Datatypes == {"text", "int", "float", "bool", "numeric", "date", "time", "timestamp", "json"}

\* lines 324-331
messytable_datastore_type_mapping(t) ==
    CASE t = "StringType"  -> "text"
      [] t = "IntegerType" -> "numeric"
      [] t = "FloatType"   -> "float"
      [] t = "DecimalType" -> "numeric"
      [] t = "DateType"    -> "timestamp"

\* lines 178-188: the CSV load parameters, defaults overridden by the schema
DataFormatArgs(s) ==
    [delimiter |-> schema_get(s.format.delimiter \ {""},
                              IF s.format.name = {"csv"} THEN "," ELSE "\t"),
     quotechar |-> schema_get(s.format.quotechar \ {""}, "\""),
     encoding  |-> s.format.encoding]

\* the table messytables hands back (lines 203, 214, 230, 238) for the stream
\* t: a CSVRowSet built from the given parameters when a format was named,
\* whatever AnyTableSet detected otherwise
TableFor(s, t) ==
    IF s.format.name # {}
    THEN [t EXCEPT !.kind = "CSVRowSet",
                   !.delimiter = DataFormatArgs(s).delimiter,
                   !.quotechar = DataFormatArgs(s).quotechar,
                   !.encoding = DataFormatArgs(s).encoding]
    ELSE t

\* lines 234-245: record the container and CSV settings that were guessed
BackfillFormat(s, tbl, guessedZip) ==
    LET s1 == IF guessedZip THEN [s EXCEPT !.container.name = {"zip"}] ELSE s
    IN  IF tbl.kind = "CSVRowSet"
        THEN [s1 EXCEPT !.format =
                 [name      |-> {IF tbl.delimiter = "\t" THEN "tsv" ELSE "csv"},
                  delimiter |-> {tbl.delimiter},
                  quotechar |-> {tbl.quotechar},
                  encoding  |-> tbl.encoding]]
        ELSE s1

\* lines 257-259: set the header information back into the schema
BackfillHeader(s, has_headers, offset) ==
    [s EXCEPT !.header = [present |-> {TRUE}, offset |-> {offset}]]

\* lines 262-266: header names overridden from the schema; an index past the
\* end of the list is ignored
OverrideHeaders(s, hs) ==
    [i \in 1..Len(hs) |->
        IF (i - 1) \in DOMAIN s.columns
        THEN schema_get(s.columns[i - 1].name, hs[i])
        ELSE hs[i]]

BackfillNamesNoGaps(s, names) ==
    [s EXCEPT !.columns =
        [i \in DOMAIN s.columns |->
            IF i < Len(names)
            THEN [name |-> {names[i + 1]}, type |-> s.columns[i].type]
            ELSE s.columns[i]]]

\* lines 302-303: every header name goes into columns[i].name, creating the
\* entry when the schema had none
BackfillNames(s, names) ==
    [s EXCEPT !.columns =
        [i \in DOMAIN s.columns \cup 0..(Len(names) - 1) |->
            IF i < Len(names)
            THEN [name |-> {names[i + 1]},
                  type |-> IF i \in DOMAIN s.columns THEN s.columns[i].type ELSE {}]
            ELSE s.columns[i]]]

\* lines 332-339: the guessed datatypes, overridden from the schema
OverrideTypes(s, guessed) ==
    [i \in 1..Len(guessed) |->
        IF (i - 1) \in DOMAIN s.columns
        THEN schema_get(s.columns[i - 1].type,
                        messytable_datastore_type_mapping(guessed[i]))
        ELSE messytable_datastore_type_mapping(guessed[i])]

\* lines 342-343
BackfillTypes(s, names, datatypes) ==
    [s EXCEPT !.columns =
        [i \in DOMAIN s.columns |->
            IF i < Len(names)
            THEN [name |-> s.columns[i].name, type |-> {datatypes[i + 1]}]
            ELSE s.columns[i]]]

MaxIndex(S) == CHOOSE m \in S : \A i \in S : i <= m

\* lines 346-353: the two validations that end parse_resource
Validate(s, datatypes) ==
    IF \E i \in 1..Len(datatypes) : datatypes[i] \notin Datatypes
    THEN {UserError("InvalidSchema", <<"Invalid data type in schema">>)}
    ELSE IF DOMAIN s.columns = {}
    THEN {Exception("KeyError", "columns", <<>>)}
    ELSE IF \E i \in 0..MaxIndex(DOMAIN s.columns) : i \notin DOMAIN s.columns
    THEN {UserError("InvalidSchema", <<"The schema is missing information for column">>)}
    ELSE {}

Resolved(raisedExc, s, hs, tbl) ==
    [raised |-> raisedExc, schema |-> s, headers |-> hs, table |-> tbl]

\* parse_resource after the payload is opened (lines 122-355), for the schema
\* s that line 125 starts from and the stream content t
parse_resource(s, t) ==
    IF s.format.name # {} /\ s.format.name \notin {{"csv"}, {"tsv"}}
    THEN Resolved({UserError("InvalidSchema", <<"Invalid format name in schema">>)},
                  s, <<>>, t)
    ELSE IF s.container.name # {} /\ s.container.name # {"zip"}
    THEN Resolved({UserError("InvalidSchema", <<"Invalid container name in schema">>)},
                  s, <<>>, t)
    ELSE IF s.container.name = {} /\ s.format.name = {} /\ ~t.recognized
    THEN Resolved({UserError("UnrecognizedFormat", <<"The file format could not be recognized">>)},
                  s, <<>>, t)
    ELSE
    LET auto     == s.container.name = {} /\ s.format.name = {}
        tbl0     == TableFor(s, t)
        s1       == BackfillFormat(s, tbl0, auto /\ t.zip)
        has_hdrs == schema_get(s1.header.present, TRUE)
        offset   == schema_get(s1.header.offset, t.offset)
        s2       == BackfillHeader(s1, has_hdrs, offset)
        names    == ColumnNames(OverrideHeaders(s2, t.headers))
        s3       == BackfillNames(s2, names)
        tbl      == [tbl0 EXCEPT !.skip = offset + 1]
        types    == OverrideTypes(s3, t.types)
        s4       == BackfillTypes(s3, names, types)
    IN  Resolved(Validate(s4, types), s4, names, tbl)

(***************************************************************************)
(* ckan: one remote action call, lines 30-86                               *)
(***************************************************************************)

\* A response: the request may never get one (urlopen raises URLError);
\* otherwise it has a status code and a body.  The bodies are
\*   "result"        {"result": ...}
\*   "not_found"     {"error": {"__type": "Not Found Error"}}
\*   "other_error"   {"error": {"__type": "Validation Error", ...}}
\*   "untyped_error" {"error": {"message": ...}}
\*   "no_error_key"  JSON without an "error" key
\*   "not_json"      text that is not JSON
Response(net, code, body) == [net |-> net, code |-> code, body |-> body]

NoResponse == Response("down", 0, "not_json")

Success == Response("up", 200, "result")

NeverAbsorb(body) == FALSE

\* line 366: the delete call's error_handler; it is applied to msg["error"],
\* and raises KeyError when that has no "__type"
NotFoundHandler(body) == body = "not_found"

\* lines 58-68: whether the error handler makes ckan return None.  Loading
\* the body, taking msg["error"] and the handler itself may all raise; the
\* bare except of line 75 swallows that, and nothing is absorbed
Absorbs(has_handler, body) ==
    /\ has_handler
    /\ body \in {"not_found", "other_error"}
    /\ NotFoundHandler(body)

\* line 80
IsForbidden(code) == code = 403

\* the outcome of ckan(action, params, error_handler) for a response:
\* "return" with the result, "none" (error absorbed), or "raise"
ckan(resp, has_handler) ==
    IF resp.net = "down"
    THEN [result |-> "raise", exc |-> {Exception("URLError", "transport", <<>>)}]
    ELSE IF resp.code = 200
    THEN IF resp.body = "result"
         THEN [result |-> "return", exc |-> {}]
         ELSE IF resp.body = "not_json"
         THEN [result |-> "raise", exc |-> {Exception("ValueError", "json", <<>>)}]
         ELSE [result |-> "raise", exc |-> {Exception("KeyError", "result", <<>>)}]
    ELSE IF Absorbs(has_handler, resp.body)
    THEN [result |-> "none", exc |-> {}]
    ELSE IF IsForbidden(resp.code)
    THEN [result |-> "raise", exc |-> {UserError("PermissionDenied", <<>>)}]
    ELSE [result |-> "raise", exc |-> {Exception("UnhandledError", "ApiError", <<>>)}]

\* an entry of the call log
Call(action, id, data, resp, has_handler) ==
    [action |-> action, id |-> id, data |-> data, resp |-> resp,
     result |-> ckan(resp, has_handler).result]

(***************************************************************************)
(* upload_resource_records, lines 357-464                                  *)
(***************************************************************************)

BatchSize == 1024

Ceil(a, b) == (a + b - 1) \div b

ChunkyDropsPartial(iterable, n) ==
    [k \in 1..(Len(iterable) \div n) |-> SubSeq(iterable, (k - 1) * n + 1, k * n)]

ChunkyOverlaps(iterable, n) ==
    [k \in 1..Ceil(Len(iterable), n) |->
        SubSeq(iterable, (IF k = 1 THEN 1 ELSE (k - 1) * n), Min(k * n, Len(iterable)))]

\* lines 380-388: the chunks the generator yields, in order: full chunks of n
\* items, then what is left when that is not empty
chunky(iterable, n) ==
    [k \in 1..Ceil(Len(iterable), n) |->
        SubSeq(iterable, (k - 1) * n + 1, Min(k * n, Len(iterable)))]

\* the row sequence: the table's rows after the registered offset processor
DataRows(tbl) == SubSeq(tbl.rows, tbl.skip + 1, Len(tbl.rows))

\* lines 440-442: the schema's columns in index order
SortedIndexes(S) ==
    [k \in 1..Cardinality(S) |->
        CHOOSE i \in S : Cardinality({j \in S : j < i}) = k - 1]

Columns(s) ==
    LET idx == SortedIndexes(DOMAIN s.columns)
    IN  [k \in 1..Len(idx) |-> s.columns[idx[k]]]

\* a column whose dict lacks "name" or "type": col["name"] raises KeyError
Incomplete(col) == col.name = {} \/ col.type = {}

ColName(col) == CHOOSE n \in col.name : TRUE

ColType(col) == CHOOSE t \in col.type : TRUE

\* lines 371-375: the fields of the create call
Fields(s) ==
    LET cols == Columns(s)
    IN  [k \in 1..Len(cols) |-> [id |-> ColName(cols[k]), type |-> ColType(cols[k])]]

\* the datatypes of lines 405-411 that have a converter
Converters == {"text", "int", "float", "numeric", "timestamp"}

IsDigits(s) == s # <<>> /\ \A i \in 1..Len(s) : s[i] \in Digits

\* what the messytables cast of a datatype accepts
Parses(cell, datatype) ==
    LET v == Strip(cell)
    IN  CASE datatype = "text" -> TRUE
          [] datatype = "int" -> IsDigits(v)
          [] datatype \in {"float", "numeric"} ->
                /\ IsDigits(Filter(v, Digits))
                /\ Len(Filter(v, {"."})) <= 1
                /\ Len(Filter(v, Digits \cup {"."})) = Len(v)
          [] datatype = "timestamp" ->
                /\ Len(v) = 10
                /\ \A i \in 1..10 : IF i \in {5, 8} THEN v[i] = "-" ELSE v[i] \in Digits
          [] OTHER -> FALSE

\* typ().cast(cellvalue), line 416: text comes back as it is, a number or a
\* date as the value parsed
Cast(cell, datatype) ==
    IF datatype = "text" THEN <<"text", cell>>
    ELSE <<(IF datatype = "timestamp" THEN "datetime"
            ELSE IF datatype = "int" THEN "int" ELSE "float"), Strip(cell)>>

Null == <<"null", <<>>>>

Value(v) == [ok |-> TRUE, value |-> v, exc |-> {}]

Raise(e) == [ok |-> FALSE, value |-> Null, exc |-> {e}]

\* line 400
EmptyIsNull(cell, datatype) == Strip(cell) = <<>> /\ datatype # "text"

\* lines 393-420
format_value(cellvalue, datatype, rnum, colnum, colname) ==
    IF EmptyIsNull(cellvalue, datatype)
    THEN Value(Null)
    ELSE IF datatype \notin Converters
    THEN Raise(Exception("KeyError", datatype, <<>>))
    ELSE IF Parses(cellvalue, datatype)
    THEN Value(Cast(cellvalue, datatype))
    ELSE Raise(UserError("InvalidCellValue",
                         <<rnum + 1, colnum + 1, colname, cellvalue, datatype>>))

ShapeNeverChecked(row, columns) == TRUE

\* line 429
ShapeOk(row, columns) == Len(columns) = Len(row)

\* lines 424-436: the record of one row, or the first exception raised
format_record(rnum, row, columns) ==
    IF ~ShapeOk(row, columns)
    THEN Raise(UserError("RowShapeError", <<rnum, Len(columns)>>))
    ELSE
    LET n     == Min(Len(columns), Len(row))
        cell(i) == format_value(row[i], ColType(columns[i]), rnum, i - 1,
                                ColName(columns[i]))
        bad   == {i \in 1..n : ~cell(i).ok}
        first == CHOOSE i \in bad : \A j \in bad : i <= j
        names == {ColName(columns[i]) : i \in 1..n}
        last(nm) == CHOOSE i \in 1..n :
                        /\ ColName(columns[i]) = nm
                        /\ \A j \in 1..n : ColName(columns[j]) = nm => j <= i
    IN  IF bad # {} THEN cell(first)
        ELSE Value([nm \in names |-> cell(last(nm)).value])

\* lines 454-457 for one chunk that starts at row counter rnum: the payload,
\* or the first exception and the row counter it is raised at
FormatChunk(rows, rnum, columns) ==
    LET rec(j) == format_record(rnum + j - 1, rows[j], columns)
        bad    == {j \in 1..Len(rows) : ~rec(j).ok}
        first  == CHOOSE j \in bad : \A i \in bad : j <= i
    IN  IF bad # {}
        THEN [ok |-> FALSE, payload |-> <<>>, exc |-> rec(first).exc,
              rownum |-> rnum + first - 1]
        ELSE [ok |-> TRUE, payload |-> [j \in 1..Len(rows) |-> rec(j).value],
              exc |-> {}, rownum |-> rnum + Len(rows)]

(***************************************************************************)
(* What the environment supplies                                           *)
(***************************************************************************)

Bodies == {"result", "not_found", "other_error", "untyped_error", "no_error_key",
           "not_json"}

\* every response the model lets the datastore give
AllResponses ==
    {NoResponse} \cup {Response("up", code, body) : code \in {200, 403, 500}, body \in Bodies}

\* one response of each outcome of ckan
SomeResponses ==
    {Success, NoResponse, Response("up", 403, "other_error"),
     Response("up", 404, "not_found"), Response("up", 500, "not_json")}

\* cell values: "", " ", "abc", "3.14", "7", "2012-01-01"
Abc == <<"a", "b", "c">>

Seven == <<"7">>

CellValues ==
    {<<>>, <<" ">>, Abc, <<"3", ".", "1", "4">>, Seven,
     <<"2", "0", "1", "2", "-", "0", "1", "-", "0", "1">>}

\* what urlopen and messytables make of a resource: whether AnyTableSet
\* recognizes the stream and finds a ZIP container, the first table's row set
\* class and CSV settings, the guesses of headers_guess and type_guess, and
\* the table's rows (skip: the rows the registered offset processor drops)
CsvStream(hdrs, types, dataRows) ==
    [recognized |-> TRUE, zip |-> FALSE, kind |-> "CSVRowSet",
     delimiter |-> ",", quotechar |-> "\"", encoding |-> {"utf-8"},
     offset |-> 0, headers |-> hdrs, types |-> types,
     rows |-> <<hdrs>> \o dataRows, skip |-> 0]

NoTable == CsvStream(<<>>, <<>>, <<>>)

NoResource == [id |-> 0]

(***************************************************************************)
(* The steps of the program                                                *)
(***************************************************************************)

\* upload_resource_to_datastore up to the return of parse_resource (lines
\* 96-99, 120-355), for one of the given (schema, stream) pairs; urlopen may
\* fail before any stream is open
ParseResource(Inputs) ==
    /\ pc = "parse"
    /\ processed' = Append(processed, resource.id)
    /\ pos' = 0
    /\ rownum' = 0
    /\ \/ /\ raised' = {Exception("URLError", "transport", <<>>)}
          /\ pc' = "raised"
          /\ schema' = EmptySchema
          /\ headers' = <<>>
          /\ table' = NoTable
          /\ supplied' = EmptySchema
          /\ UNCHANGED streams
       \/ \E in \in Inputs :
             LET r == parse_resource(in[1], in[2])
             IN  /\ streams' = streams + 1
                 /\ supplied' = in[1]
                 /\ schema' = r.schema
                 /\ headers' = r.headers
                 /\ table' = r.table
                 /\ raised' = r.raised
                 /\ pc' = IF r.raised = {} THEN "delete" ELSE "raised"
    /\ UNCHANGED <<mode, packages, pkgIdx, resource, calls, logged>>

\* one ckan call of the upload that moves to pc next when it does not raise
RemoteStep(action, data, resp, has_handler, next) ==
    LET out == ckan(resp, has_handler)
    IN  /\ calls' = Append(calls, Call(action, resource.id, data, resp, has_handler))
        /\ raised' = out.exc
        /\ pc' = IF out.result = "raise" THEN "raised" ELSE next

\* lines 365-366
DeleteTable(Responses) ==
    /\ pc = "delete"
    /\ \E resp \in Responses : RemoteStep("datastore_delete", <<>>, resp, TRUE, "create")
    /\ UNCHANGED <<mode, packages, pkgIdx, resource, schema, headers, table, pos,
                   rownum, streams, logged, processed, supplied>>

\* lines 369-376
CreateTable(Responses) ==
    /\ pc = "create"
    /\ IF \E i \in DOMAIN schema.columns : Incomplete(schema.columns[i])
       THEN /\ raised' = {Exception("KeyError", "column", <<>>)}
            /\ pc' = "raised"
            /\ UNCHANGED calls
       ELSE \E resp \in Responses :
                RemoteStep("datastore_create", Fields(schema), resp, FALSE, "chunks")
    /\ UNCHANGED <<mode, packages, pkgIdx, resource, schema, headers, table, pos,
                   rownum, streams, logged, processed, supplied>>

Chunks == chunky(DataRows(table), BatchSize)

\* the number of the chunk the generator yields next
NextChunk == Ceil(pos, BatchSize) + 1

\* lines 448-464: one turn of the loop over the chunks
UploadChunk(Responses) ==
    /\ pc = "chunks"
    /\ NextChunk <= Len(Chunks)
    /\ \E rows \in {Chunks[NextChunk]}, columns \in {Columns(schema)} :
       \E f \in {FormatChunk(rows, rownum, columns)} :
           /\ pos' = pos + Len(rows)
           /\ rownum' = f.rownum
           /\ IF f.ok
              THEN \E resp \in Responses :
                       RemoteStep("datastore_upsert", f.payload, resp, FALSE, "chunks")
              ELSE /\ raised' = f.exc
                   /\ pc' = "raised"
                   /\ UNCHANGED calls
    /\ UNCHANGED <<mode, packages, pkgIdx, resource, schema, headers, table,
                   streams, logged, processed, supplied>>

\* the generator is exhausted: upload_resource_records and
\* upload_resource_to_datastore return
Return ==
    /\ pc = "chunks"
    /\ NextChunk > Len(Chunks)
    /\ pc' = "returned"
    /\ UNCHANGED <<mode, packages, pkgIdx, resource, schema, headers, table, pos,
                   rownum, calls, streams, raised, logged, processed, supplied>>

MaxPackages == 2

\* a catalog call of the driver: it raises at top level, outside any try
DriverCall(action, id, resp) ==
    LET out == ckan(resp, FALSE)
    IN  /\ calls' = Append(calls, Call(action, id, <<>>, resp, FALSE))
        /\ raised' = out.exc
        /\ out.result = "raise" => pc' = "aborted"

\* line 470
PackageList(Responses) ==
    /\ pc = "start"
    /\ mode = "all"
    /\ \E resp \in Responses, n \in 0..MaxPackages :
          /\ DriverCall("package_list", 0, resp)
          /\ IF ckan(resp, FALSE).result = "raise"
             THEN UNCHANGED packages
             ELSE packages' = [i \in 1..n |-> i] /\ pc' = "loop"
    /\ UNCHANGED <<mode, pkgIdx, resource, schema, headers, table, pos, rownum,
                   streams, logged, processed, supplied>>

\* line 481
ResourceShow(Responses) ==
    /\ pc = "start"
    /\ mode = "single"
    /\ \E resp \in Responses :
          /\ DriverCall("resource_show", 1, resp)
          /\ IF ckan(resp, FALSE).result = "raise"
             THEN UNCHANGED resource
             ELSE resource' = [id |-> 1] /\ pc' = "parse"
    /\ UNCHANGED <<mode, packages, pkgIdx, schema, headers, table, pos, rownum,
                   streams, logged, processed, supplied>>

\* lines 471-474: the next package's first resource; a package without
\* resources raises IndexError
PackageShow(Responses) ==
    /\ pc = "loop"
    /\ pkgIdx < Len(packages)
    /\ \E resp \in Responses, has_resource \in BOOLEAN :
          LET id == packages[pkgIdx + 1]
          IN  IF ckan(resp, FALSE).result = "raise"
              THEN DriverCall("package_show", id, resp) /\ UNCHANGED resource
              ELSE /\ calls' = Append(calls, Call("package_show", id, <<>>, resp, FALSE))
                   /\ IF has_resource
                      THEN resource' = [id |-> id] /\ raised' = {} /\ pc' = "parse"
                      ELSE /\ raised' = {Exception("IndexError", "resources", <<>>)}
                           /\ pc' = "aborted"
                           /\ UNCHANGED resource
    /\ UNCHANGED <<mode, packages, pkgIdx, schema, headers, table, pos, rownum,
                   streams, logged, processed, supplied>>

IsUserError(e) == e.class = "UserError"

CatchesNothing(e) == FALSE

\* line 477: what the driver's except clause catches
Caught(e) == IsUserError(e)

\* lines 477-478: a UserError of one resource is logged and the loop goes on
CatchUserError ==
    /\ pc = "raised"
    /\ mode = "all"
    /\ \E e \in raised :
          /\ Caught(e)
          /\ logged' = Append(logged, e)
    /\ raised' = {}
    /\ pkgIdx' = pkgIdx + 1
    /\ pc' = "loop"
    /\ UNCHANGED <<mode, packages, resource, schema, headers, table, pos, rownum,
                   calls, streams, processed, supplied>>

\* the resource was uploaded: the loop goes on
NextPackage ==
    /\ pc = "returned"
    /\ mode = "all"
    /\ pkgIdx' = pkgIdx + 1
    /\ pc' = "loop"
    /\ UNCHANGED <<mode, packages, resource, schema, headers, table, pos, rownum,
                   calls, streams, raised, logged, processed, supplied>>

\* an exception nothing catches ends the run: any exception of line 482, and
\* any exception of line 476 that the except clause does not catch
Abort ==
    /\ pc = "raised"
    /\ \E e \in raised : mode = "single" \/ ~Caught(e)
    /\ pc' = "aborted"
    /\ UNCHANGED <<mode, packages, pkgIdx, resource, schema, headers, table, pos,
                   rownum, calls, streams, raised, logged, processed, supplied>>

\* the run ends normally: the loop is over, or the one resource is uploaded
Finish ==
    /\ \/ pc = "loop" /\ pkgIdx = Len(packages)
       \/ pc = "returned" /\ mode = "single"
    /\ pc' = "done"
    /\ UNCHANGED <<mode, packages, pkgIdx, resource, schema, headers, table, pos,
                   rownum, calls, streams, raised, logged, processed, supplied>>

(***************************************************************************)
(* The whole run: the driver of lines 468-482                              *)
(***************************************************************************)

\* short tables, of one column that was guessed numeric
RunInputs ==
    {<<EmptySchema, CsvStream(<<Abc>>, <<"IntegerType">>, rows)>> :
        rows \in {<<>>, <<<<Seven>>>>, <<<<Abc>>>>, <<<<Seven, Seven>>>>}}
    \cup {<<EmptySchema, [NoTable EXCEPT !.recognized = FALSE]>>}

Init ==
    /\ pc = "start"
    /\ mode \in {"all", "single"}
    /\ packages = <<>>
    /\ pkgIdx = 0
    /\ resource = NoResource
    /\ schema = EmptySchema
    /\ headers = <<>>
    /\ table = NoTable
    /\ pos = 0
    /\ rownum = 0
    /\ calls = <<>>
    /\ streams = 0
    /\ raised = {}
    /\ logged = <<>>
    /\ processed = <<>>
    /\ supplied = EmptySchema

RunParse == ParseResource(RunInputs)

RunDelete == DeleteTable(SomeResponses)

RunCreate == CreateTable(SomeResponses)

RunChunk == UploadChunk(SomeResponses)

RunPackageList == PackageList(SomeResponses)

RunResourceShow == ResourceShow(SomeResponses)

RunPackageShow == PackageShow(SomeResponses)

Next ==
    \/ RunPackageList
    \/ RunResourceShow
    \/ RunPackageShow
    \/ RunParse
    \/ RunDelete
    \/ RunCreate
    \/ RunChunk
    \/ Return
    \/ CatchUserError
    \/ NextPackage
    \/ Abort
    \/ Finish

Spec == Init /\ [][Next]_vars

(***************************************************************************)
(* One upload: upload_resource_to_datastore for a resource that            *)
(* resource_show has returned                                              *)
(***************************************************************************)

InitUpload ==
    /\ pc = "parse"
    /\ mode = "single"
    /\ packages = <<>>
    /\ pkgIdx = 0
    /\ resource = [id |-> 1]
    /\ schema = EmptySchema
    /\ headers = <<>>
    /\ table = NoTable
    /\ pos = 0
    /\ rownum = 0
    /\ calls = <<Call("resource_show", 1, <<>>, Success, FALSE)>>
    /\ streams = 0
    /\ raised = {}
    /\ logged = <<>>
    /\ processed = <<>>
    /\ supplied = EmptySchema

Amount == <<"a", "m", "o", "u", "n", "t">>

Note == <<"n", "o", "t", "e">>

(***************************************************************************)
(* Long tables: the batches of an upload                                   *)
(***************************************************************************)

MaxRows == 2500

\* the row counts around the batch boundaries
RowCounts == {0, 1, BatchSize, BatchSize + 1, MaxRows}

\* n rows of one cell "7", except that rows p and q (when in 1..n) are special
RowsWith(n, p, rowp, q, rowq) ==
    [i \in 1..n |-> IF i = p THEN rowp ELSE IF i = q THEN rowq ELSE <<Seven>>]

\* rows of one cell that are too short, too long, or hold an invalid or an
\* empty cell
SpecialRows == {<<>>, <<Seven, Seven>>, <<Abc>>, <<<<>>>>}

\* where a special row is put: at the start or the end of a batch
SpecialPlaces == {1, BatchSize, BatchSize + 1}

LongTable(rows) == <<EmptySchema, CsvStream(<<Amount>>, <<"IntegerType">>, rows)>>

\* tables of one column guessed numeric: no special row, one special row, or
\* an invalid cell followed by a row that is too short
LongInputs ==
    {LongTable(RowsWith(n, 0, <<>>, 0, <<>>)) : n \in RowCounts}
    \cup
    {LongTable(RowsWith(x[1], x[2], x[3], 0, <<>>)) :
        x \in {y \in RowCounts \X SpecialPlaces \X SpecialRows : y[2] <= y[1]}}
    \cup
    {LongTable(RowsWith(MaxRows, x[1], <<Abc>>, x[2], <<>>)) :
        x \in {y \in SpecialPlaces \X SpecialPlaces : y[1] # y[2]}}

BatchesParse == ParseResource(LongInputs)

BatchesDelete == DeleteTable(SomeResponses)

BatchesCreate == CreateTable(SomeResponses)

BatchesInsert == UploadChunk(SomeResponses)

NextBatches ==
    \/ BatchesParse
    \/ BatchesDelete
    \/ BatchesCreate
    \/ BatchesInsert
    \/ Return

SpecBatches == InitUpload /\ [][NextBatches]_vars

(***************************************************************************)
(* Short tables: the schemas a caller can supply, the datatypes, and every *)
(* response to the delete call                                             *)
(***************************************************************************)

MaxSmallRows == 2

MaxCols == 3

\* a schema that only overrides the datatype of column cidx
TypeOverride(cidx, type) ==
    [EmptySchema EXCEPT !.columns = [i \in {cidx} |-> [name |-> {}, type |-> {type}]]]

RECURSIVE SeqsUpTo(_, _)
SeqsUpTo(S, n) ==
    IF n = 0 THEN {<<>>}
    ELSE LET shorter == SeqsUpTo(S, n - 1)
         IN  shorter \cup {Append(q, x) : q \in shorter, x \in S}

\* tables of one column, of every datatype the schema can name
OneColumnInputs ==
    {<<TypeOverride(0, x[1]), CsvStream(<<Amount>>, <<"StringType">>, x[2])>> :
        x \in Datatypes
              \X SeqsUpTo({<<c>> : c \in CellValues} \cup {<<>>, <<Seven, Seven>>},
                          MaxSmallRows)}

\* one-row tables of two columns, the second of every datatype
TwoColumnInputs ==
    {<<TypeOverride(1, x[1]),
       CsvStream(<<Note, Amount>>, <<x[2], "StringType">>, <<<<x[3], x[4]>>>>)>> :
        x \in Datatypes \X {"StringType", "DecimalType"} \X {<<>>, Abc, Seven} \X CellValues}

WideHeaders == <<Amount, Note, <<"A", "b">>, <<"x">>, <<"y">>>>

\* a CSV table of k columns guessed text, with two rows under the header row
WideStream(k) ==
    CsvStream(SubSeq(WideHeaders, 1, k), [i \in 1..k |-> "StringType"],
              <<[i \in 1..k |-> Seven], [i \in 1..k |-> Abc]>>)

\* the name a caller gives column i: "c0", "c1", ...
GivenName(i) == <<"c">> \o Decimal(i)

\* what a caller says about a column: a type, a name, both, or a datatype
\* outside the vocabulary
ColumnEntries(i) ==
    {[name |-> {}, type |-> {"text"}],
     [name |-> {GivenName(i)}, type |-> {}],
     [name |-> {GivenName(i)}, type |-> {"numeric"}],
     [name |-> {}, type |-> {"money"}]}

\* schemas that name some of the columns 0..MaxCols, all in the same way
ColumnSchemas ==
    {[EmptySchema EXCEPT !.columns =
         [i \in x[1] |-> CHOOSE e \in ColumnEntries(i) :
                            e.name = (IF x[2].name = {} THEN {} ELSE {GivenName(i)})
                            /\ e.type = x[2].type]] :
        x \in (SUBSET (0..MaxCols) \ {{}}) \X ColumnEntries(0)}

ColumnInputs == ColumnSchemas \X {WideStream(k) : k \in 1..MaxCols}

\* schemas that name a format or a container
FormatSchemas ==
    {[EmptySchema EXCEPT !.format = [name |-> x[1], delimiter |-> x[2],
                                      quotechar |-> x[3], encoding |-> {}],
                         !.container.name = x[4]] :
        x \in {{}, {"csv"}, {"tsv"}, {"xls"}} \X {{}, {","}, {"\t"}, {";"}}
              \X {{}, {"'"}} \X {{}, {"zip"}, {"tar"}}}

\* what detection can make of a stream
DetectedStreams ==
    {WideStream(1),
     [WideStream(1) EXCEPT !.delimiter = "\t"],
     [WideStream(1) EXCEPT !.kind = "XLSRowSet"],
     [WideStream(1) EXCEPT !.zip = TRUE],
     [WideStream(1) EXCEPT !.recognized = FALSE],
     [WideStream(1) EXCEPT !.offset = 1]}

FormatInputs == FormatSchemas \X DetectedStreams

\* schemas that only say something about the header row
HeaderSchemas ==
    {[EmptySchema EXCEPT !.header = [present |-> x[1], offset |-> x[2]]] :
        x \in {{}, {TRUE}, {FALSE}} \X {{}, {0}, {1}}}

HeaderInputs == HeaderSchemas \X DetectedStreams

\* schemas that say everything: the format, the header and every column
ExplicitSchema(name, delimiter, quotechar, present, offset, k, type) ==
    [format    |-> [name |-> {name}, delimiter |-> {delimiter},
                    quotechar |-> {quotechar}, encoding |-> {}],
     container |-> [name |-> {}],
     header    |-> [present |-> {present}, offset |-> {offset}],
     columns   |-> [i \in 0..(k - 1) |-> [name |-> {GivenName(i)}, type |-> {type}]]]

ExplicitInputs ==
    {<<ExplicitSchema(x[1], x[2], x[3], x[4], x[5], x[6], x[7]), WideStream(x[6])>> :
        x \in {"csv", "tsv"} \X {",", "\t"} \X {"\"", "'"} \X BOOLEAN \X {0, 1}
              \X (1..(MaxCols - 1)) \X {"text", "numeric"}}

UploadInputs ==
    OneColumnInputs \cup TwoColumnInputs \cup ColumnInputs \cup FormatInputs
    \cup HeaderInputs \cup ExplicitInputs

\* the outcomes of a call after the delete call
LaterResponses == {Success, NoResponse, Response("up", 403, "other_error")}

UploadParse == ParseResource(UploadInputs)

UploadDelete == DeleteTable(AllResponses)

UploadCreate == CreateTable(LaterResponses)

UploadInsert == UploadChunk(LaterResponses)

NextUpload ==
    \/ UploadParse
    \/ UploadDelete
    \/ UploadCreate
    \/ UploadInsert
    \/ Return

SpecUpload == InitUpload /\ [][NextUpload]_vars

(***************************************************************************)
(* The claims about the batches                                            *)
(***************************************************************************)

IsUploadCall(c) ==
    /\ c.id = resource.id
    /\ c.action \in {"datastore_delete", "datastore_create", "datastore_upsert"}

\* the datastore calls issued for the current resource, in order
UploadCalls == SelectSeq(calls, IsUploadCall)

IsInsert(c) == c.action = "datastore_upsert"

\* the records of the insert calls of a log, concatenated in call order
Inserted(log) ==
    LET ins == SelectSeq(log, IsInsert)
    IN  Flatten([k \in 1..Len(ins) |-> ins[k].data])

Ended == pc \in {"returned", "raised"}

NoneRaised(log) == \A i \in 1..Len(log) : log[i].result # "raise"

ConvertUpTo(rows, n, columns) ==
    \A j \in 1..n : format_record(j - 1, rows[j], columns).ok

\* the size of insert call k of the count needed for n rows
BatchLength(k, n) ==
    IF k < Ceil(n, BatchSize) THEN BatchSize ELSE n - BatchSize * (Ceil(n, BatchSize) - 1)

\* C1: when every row converts and every remote call succeeds, the upload
\* returns after exactly one delete call, then one create call, then
\* ceil(N/1024) insert calls, each of 1024 records but the last, which has
\* the remaining N - 1024*(ceil(N/1024)-1); for N = 0 there is no insert call.
C1_Batching ==
    (Ended /\ UploadCalls # <<>>) =>
        \A rows \in {DataRows(table)}, columns \in {Columns(schema)}, log \in {UploadCalls} :
            ( /\ \A i \in 1..Len(log) : log[i].result = "return"
              /\ ConvertUpTo(rows, Len(rows), columns) )
            =>
            /\ pc = "returned"
            /\ Len(log) = 2 + Ceil(Len(rows), BatchSize)
            /\ log[1].action = "datastore_delete"
            /\ log[2].action = "datastore_create"
            /\ \A k \in 1..Ceil(Len(rows), BatchSize) :
                  /\ log[2 + k].action = "datastore_upsert"
                  /\ Len(log[2 + k].data) = BatchLength(k, Len(rows))
                  /\ Len(log[2 + k].data) \in 1..BatchSize

\* an upload of more than two batches has returned, every call a success
C1_Witness ==
    /\ pc = "returned"
    /\ Len(DataRows(table)) > 2 * BatchSize
    /\ Len(DataRows(table)) % BatchSize # 0
    /\ \A i \in 1..Len(UploadCalls) : UploadCalls[i].result = "return"

\* C8: a call is issued only when every call before it has returned without
\* raising, and at every point the records of the insert calls issued so far,
\* in call order, are the conversions of the first rows of the row sequence,
\* in order; when the upload returns they are the conversions of all rows.
C8_InsertsArePrefix ==
    \A rows \in {DataRows(table)}, columns \in {Columns(schema)}, log \in {UploadCalls} :
    \A sent \in {Inserted(log)} :
        /\ \A i \in 1..(Len(log) - 1) : log[i].result # "raise"
        /\ Len(sent) <= Len(rows)
        /\ \A j \in 1..Len(sent) :
              \E r \in {format_record(j - 1, rows[j], columns)} : r.ok /\ sent[j] = r.value
        /\ pc = "returned" => Len(sent) = Len(rows)

\* two insert calls are out and rows are left to send
C8_Witness ==
    /\ pc = "chunks"
    /\ Len(SelectSeq(UploadCalls, IsInsert)) = 2
    /\ pos < Len(DataRows(table))

\* the rows whose cell count is not the number of columns
Misshapen(rows, columns) == {j \in 1..Len(rows) : Len(rows[j]) # Len(columns)}

First(S) == CHOOSE j \in S : \A i \in S : j <= i

FullBatches(log, n) ==
    \E ins \in {SelectSeq(log, IsInsert)} :
        /\ Len(ins) = n
        /\ \A k \in 1..Len(ins) : Len(ins[k].data) = BatchSize

\* C3 as stated, even granting that no remote call fails: whenever some data
\* row has the wrong cell count, the upload ends with RowShapeError, the
\* complete batches before that row's batch inserted and nothing else.
C3_Original ==
    (Ended /\ UploadCalls # <<>>) =>
        \A rows \in {DataRows(table)}, columns \in {Columns(schema)}, log \in {UploadCalls} :
        \A bad \in {Misshapen(rows, columns)} :
            (bad # {} /\ NoneRaised(log)) =>
                /\ pc = "raised"
                /\ raised = {UserError("RowShapeError", <<First(bad) - 1, Len(columns)>>)}
                /\ FullBatches(log, (First(bad) - 1) \div BatchSize)

\* C3, amended: no insert call ever holds the first row with the wrong cell
\* count or a row of its batch; and when the upload reaches that row (no call
\* raised and every row before it converted) it ends with RowShapeError, with
\* exactly the complete batches before that row's batch inserted.
C3_ShapeErrorWhenReached ==
    UploadCalls # <<>> =>
        \A rows \in {DataRows(table)}, columns \in {Columns(schema)}, log \in {UploadCalls} :
        \A bad \in {Misshapen(rows, columns)} :
            bad # {} =>
                /\ \E n \in 0..((First(bad) - 1) \div BatchSize) : FullBatches(log, n)
                /\ (Ended /\ NoneRaised(log) /\ ConvertUpTo(rows, First(bad) - 1, columns))
                   => /\ pc = "raised"
                      /\ raised = {UserError("RowShapeError", <<First(bad) - 1, Len(columns)>>)}
                      /\ FullBatches(log, (First(bad) - 1) \div BatchSize)

\* RowShapeError was raised for a row of a later batch, after a full batch
\* was inserted
C3_Witness ==
    /\ pc = "raised"
    /\ \E e \in raised : e.what = "RowShapeError"
    /\ Len(SelectSeq(UploadCalls, IsInsert)) >= 1

(***************************************************************************)
(* The claims about the delete call, the schema and the cells              *)
(***************************************************************************)

\* the response of a delete call that says the table does not exist
NotFoundFailure(resp) == resp.net = "up" /\ resp.code # 200 /\ resp.body = "not_found"

\* C2: a delete call that fails with the service's not-found error raises
\* nothing and the upload goes on to the create call, which is the next call
\* it issues; a delete call that fails in any other way raises, and neither
\* a create call nor an insert call is issued for the resource.
C2_DeleteNotFoundAbsorbed ==
    /\ [][pc = "delete" =>
            \E d \in {calls'[Len(calls')]} :
                /\ Len(calls') = Len(calls) + 1
                /\ d.action = "datastore_delete"
                /\ NotFoundFailure(d.resp) => (raised' = {} /\ pc' = "create")
                /\ (d.resp # Success /\ ~NotFoundFailure(d.resp)) =>
                       (raised' # {} /\ pc' = "raised")]_vars
    /\ [][(pc = "create" /\ \A i \in DOMAIN schema.columns : ~Incomplete(schema.columns[i])) =>
            /\ Len(calls') = Len(calls) + 1
            /\ calls'[Len(calls')].action = "datastore_create"]_vars
    /\ [](\A log \in {UploadCalls} :
            Len(log) >= 1 =>
                /\ log[1].action = "datastore_delete"
                /\ Len(log) >= 2 => log[2].action = "datastore_create"
                /\ (log[1].resp # Success /\ ~NotFoundFailure(log[1].resp)) => Len(log) = 1)

\* the delete call met the not-found error and the create call went out
C2_Witness ==
    /\ Len(UploadCalls) >= 2
    /\ NotFoundFailure(UploadCalls[1].resp)
    /\ UploadCalls[2].action = "datastore_create"

\* the indexes below the largest supplied one that the mapping leaves out
MissingIndexes(s) ==
    IF DOMAIN s.columns = {} THEN {}
    ELSE {i \in 0..MaxIndex(DOMAIN s.columns) : i \notin DOMAIN s.columns}

HasGap(s) == MissingIndexes(s) # {}

\* parse_resource has run on an opened stream
ParseEnded == pc # "parse" /\ streams > 0

MissingInformation ==
    UserError("InvalidSchema", <<"The schema is missing information for column">>)

DoesNotParse(cell, datatype) ==
    IF datatype \in Converters
    THEN ~Parses(cell, datatype)
    ELSE \A t \in Converters \ {"text"} : ~Parses(cell, t)

\* the columns (1-based) of a row whose cell must fail conversion
FailingCells(row, columns) ==
    {c \in 1..Len(columns) :
        /\ ColType(columns[c]) # "text"
        /\ Strip(row[c]) # <<>>
        /\ DoesNotParse(row[c], ColType(columns[c]))}

\* C5: in a well-shaped row a cell that is empty after trimming becomes null
\* unless the column is text, a text cell is sent as it is, and the first
\* cell that does not parse under its column's datatype ends the upload with
\* InvalidCellValue carrying the 1-based row and column numbers, the column
\* name, the raw value and the datatype.
C5_CellConversion ==
    (pc \in {"chunks", "returned", "raised"} /\ pos > 0) =>
        \A rows \in {DataRows(table)}, columns \in {Columns(schema)},
           sent \in {Inserted(UploadCalls)} :
            /\ \A j \in 1..Len(sent) : \A c \in 1..Len(columns) :
                  /\ (ColType(columns[c]) # "text" /\ Strip(rows[j][c]) = <<>>) =>
                         sent[j][ColName(columns[c])] = Null
                  /\ ColType(columns[c]) = "text" =>
                         sent[j][ColName(columns[c])] = <<"text", rows[j][c]>>
            /\ (rownum < Len(rows) /\ Len(rows[rownum + 1]) = Len(columns)) =>
                  \A bad \in {FailingCells(rows[rownum + 1], columns)} :
                      bad # {} =>
                          /\ pc = "raised"
                          /\ \A i \in 1..Len(UploadCalls) : UploadCalls[i].result # "raise"
                                => raised = {UserError("InvalidCellValue",
                                       <<rownum + 1, First(bad),
                                         ColName(columns[First(bad)]),
                                         rows[rownum + 1][First(bad)],
                                         ColType(columns[First(bad)])>>)}

\* a schema that says everything there is to say
FullyExplicit(s) ==
    /\ s.format.name # {} /\ s.format.delimiter # {} /\ s.format.quotechar # {}
    /\ s.header.present # {} /\ s.header.offset # {}
    /\ DOMAIN s.columns # {}
    /\ ~HasGap(s)
    /\ \A i \in DOMAIN s.columns : ~Incomplete(s.columns[i])

\* ... and says nothing the resolver refuses or has to repair
ValidExplicit(s) ==
    /\ FullyExplicit(s)
    /\ s.format.name \in {{"csv"}, {"tsv"}}
    /\ s.format.name = {"tsv"} <=> s.format.delimiter = {"\t"}
    /\ \A i \in DOMAIN s.columns :
          /\ IsIdentifier(ColName(s.columns[i]))
          /\ Len(ColName(s.columns[i])) <= MaxNameLength
          /\ ColType(s.columns[i]) \in Datatypes
          /\ \A j \in DOMAIN s.columns :
                ColName(s.columns[j]) = ColName(s.columns[i]) => j = i

\* C7: every field the caller supplied explicitly is the same in the
\* resolved schema: the format name, delimiter and quote character, whether a
\* header row is present (false included), the header offset, and each
\* column's name and type.
C7_ExplicitSchemaKept ==
    (ParseEnded /\ headers # <<>> /\ ValidExplicit(supplied)) =>
        /\ schema.format.name = supplied.format.name
        /\ schema.format.delimiter = supplied.format.delimiter
        /\ schema.format.quotechar = supplied.format.quotechar
        /\ schema.header.present = supplied.header.present
        /\ schema.header.offset = supplied.header.offset
        /\ \A i \in DOMAIN supplied.columns :
              i \in DOMAIN schema.columns /\ schema.columns[i] = supplied.columns[i]

(***************************************************************************)
(* Header lists: what the table's header row and the name overrides can    *)
(* hold                                                                    *)
(***************************************************************************)

MaxHeaders == 3

LongLength == 25

\* two names longer than the cap that agree on their first 24 characters
LongX == [i \in 1..LongLength |-> "x"]

LongY == [i \in 1..LongLength |-> IF i = LongLength THEN "y" ELSE "x"]

\* empty, punctuation, non-ASCII, a digit first, names that differ in case
\* and blanks only, and the long names
HeaderSamples ==
    {<<>>, <<"!", "?">>, <<"U+00C9", "t", "U+00E9">>, <<"U+210B">>,
     <<"7", "u", "p">>, Amount, <<"A", "m", "o", "u", "n", "t", " ">>, LongX, LongY}

HeaderLists == SeqsUpTo(HeaderSamples, MaxHeaders) \ {<<>>}

\* schemas that override the name of the first column, or of none
NameOverrides ==
    {EmptySchema}
    \cup {[EmptySchema EXCEPT !.columns = [i \in {0} |-> [name |-> {h}, type |-> {}]]] :
            h \in {<<"!", "?">>, Amount, LongX}}

\* a table that has only its header row
HeaderStreams == {CsvStream(hs, [i \in 1..Len(hs) |-> "StringType"], <<>>) : hs \in HeaderLists}

NameInputs == NameOverrides \X HeaderStreams

NameColumns == ParseResource(NameInputs)

SpecHeaders == InitUpload /\ [][NameColumns]_vars

(***************************************************************************)
(* The claim about the column names                                        *)
(***************************************************************************)

\* the names lines 302-303 wrote into schema.columns[i].name
WrittenNames ==
    [i \in 1..Len(headers) |-> ColName(schema.columns[i - 1])]

\* C6: whatever the header list holds, the column names that header
\* normalization writes into the schema are pairwise distinct, non-empty, at
\* most 24 characters long, and match ^[a-z_][a-z0-9_]*$.
C6_ColumnNamesValid ==
    (ParseEnded /\ headers # <<>>) =>
        \A names \in {WrittenNames} :
            /\ Len(names) = Len(table.headers)
            /\ \A i \in 1..Len(names) :
                  /\ names[i] # <<>>
                  /\ Len(names[i]) <= MaxNameLength
                  /\ IsIdentifier(names[i])
                  /\ \A j \in 1..Len(names) : names[j] = names[i] => j = i

\* three headers that normalize to the same name, and long ones that agree
\* up to the cap, have been given names
C6_Witness ==
    /\ ParseEnded
    /\ Len(headers) = MaxHeaders
    /\ \/ \A i \in 1..Len(table.headers) : SqlName(Strip(Lower(table.headers[i]))) = <<"_">>
       \/ table.headers[1] = LongX /\ table.headers[2] = LongY

(***************************************************************************)
(* The claims about the whole run                                          *)
(***************************************************************************)

\* C9: however the processing of a resource ends, and however the run ends,
\* the byte stream opened for the resource URL has been closed.
C9_StreamReleased ==
    pc \in {"returned", "raised", "done", "aborted"} => streams = 0

\* C10: in a run over all packages, a user error that ends the processing of
\* a resource is logged and the driver goes on to the next package, so that
\* a run that ends normally has processed every package's resource; any
\* other error ends the run, and nothing is processed after that.
C10_LogAndContinue ==
    /\ [][(mode = "all" /\ pc = "raised") =>
             \A e \in raised :
                 /\ IsUserError(e) =>
                       /\ logged' = Append(logged, e)
                       /\ pc' = "loop"
                       /\ pkgIdx' = pkgIdx + 1
                 /\ ~IsUserError(e) =>
                       /\ pc' = "aborted"
                       /\ logged' = logged
                 /\ processed' = processed /\ calls' = calls]_vars
    /\ [][pc # "aborted"]_vars
    /\ [](mode = "all" =>
            /\ pc = "loop" => processed = SubSeq(packages, 1, pkgIdx)
            /\ pc = "done" => processed = packages)

\* the first resource ended with a user error, which was logged, and the
\* second resource has been uploaded
C10_Witness ==
    /\ mode = "all"
    /\ pc = "returned"
    /\ pkgIdx = 1
    /\ Len(logged) = 1
    /\ processed = <<1, 2>>

(***************************************************************************)
(* The claim about the datatypes without a converter                       *)
(***************************************************************************)

\* parse_resource returned: the resolver accepted the schema
SchemaAccepted == ParseEnded /\ ~(pc = "raised" /\ UploadCalls = <<>>)

InvalidCellValue(e) == e.class = "UserError" /\ e.what = "InvalidCellValue"

\* C11: for a schema the resolver accepted, format_value turns every
\* non-empty cell of a well-shaped row the upload has come to into a value
\* or raises InvalidCellValue for it, and the upload never ends with the
\* KeyError of a datatype that has no converter.
C11_EveryDatatypeConverts ==
    (SchemaAccepted /\ \A i \in DOMAIN schema.columns : ~Incomplete(schema.columns[i])) =>
        \A rows \in {DataRows(table)}, columns \in {Columns(schema)} :
            /\ \A j \in 1..Min(pos, rownum + 1) : \A c \in 1..Len(columns) :
                  (Len(rows[j]) = Len(columns) /\ Strip(rows[j][c]) # <<>>) =>
                      \E r \in {format_value(rows[j][c], ColType(columns[c]), j - 1, c - 1,
                                             ColName(columns[c]))} :
                          r.ok \/ \E e \in r.exc : InvalidCellValue(e)
            /\ \A e \in raised : ~(e.class = "KeyError" /\ e.what \in Datatypes)

====
